---------------------------- MODULE Spec2Model ----------------------------
(***************************************************************************)
(* A model of the wasm_swirl fluid solver (src/src/wasm_swirl/src):        *)
(* the coordinate topology of space/coords.rs, the sparse Grid of          *)
(* space/matrix.rs and the Fluid state machine of fluid.rs; and of the     *)
(* call protocol of the particle module (src/src/flow_field/src/lib.rs).   *)
(*                                                                         *)
(* Numbers.  f64 values are modelled as exact rationals <<num, den>> in    *)
(* lowest terms with den > 0; f64 rounding, NaN, infinities and the sign   *)
(* of zero are abstracted away.  usize values are naturals; a subtraction  *)
(* below zero is the one place where the width matters and is modelled by  *)
(* usize_sub (panic with overflow checks, wrap-around without).  A result  *)
(* that can panic is a record [grid, panic] with panic = "none" if not.     *)
(*                                                                         *)
(* Option<T> is modelled as a set with at most one element: {} is None     *)
(* and {v} is Some(v).  A Grid's HashMap is a function whose DOMAIN is     *)
(* the set of coordinates that have been set.                              *)
(*                                                                         *)
(* Order of iteration.  Grid::iter_mut yields the set cells in the order   *)
(* of the HashMap, which is not specified: lin_solve is stepped one cell   *)
(* at a time and the next cell is any cell not yet visited in the sweep.   *)
(* The variable twin is a second Fluid that starts every tick with the     *)
(* same fields and runs the same phases with the cells in sorted order.    *)
(*                                                                         *)
(* Build profile.  overflow_checks is TRUE for a build in which usize      *)
(* arithmetic panics on overflow (debug) and FALSE for one in which it     *)
(* wraps (release).  A panic ends the program: pc = "panicked".            *)
(*                                                                         *)
(* Coord2::neighbors and Neighbors (map, opt, sum) and crate::constant     *)
(* (N, ITER) are used by fluid.rs but their source is not among the files; *)
(* neighbors saturates at 0, as the description of the solver has it, and  *)
(* N and ITER are bounds of the model.                                     *)
(***************************************************************************)
EXTENDS Integers, Sequences, FiniteSets, TLC

VARIABLES
  overflow_checks, \* build profile: TRUE = debug (usize overflow panics)
  pc,              \* position of the Fluid handle: unbuilt, idle, a phase of tick, panicked
  dt, diff, viscosity,                           \* Fluid's three parameters
  density, density_prev, velocity, velocity_prev, \* Fluid's four fields (Grid items)
  twin,            \* a second Fluid whose HashMap iterates in sorted order
  iter,            \* lin_solve: sweeps still to run
  todo,            \* lin_solve: cells the current sweep's iter_mut has not yielded yet
  phases,          \* phases started by the current (or last) tick call, in order
  ticks,           \* tick calls started
  ncalls,          \* add_dye / add_velocity calls made
  call,            \* the last add_dye / add_velocity call: arguments, result, value before
  panic,           \* panic message, "none" while the program runs
  rect,            \* probes: the Rect under test, the dimensions of the Grid under test
  probe,           \* probes: the last call and what it returned
  probed,          \* grid probes: the Grid<T> under test
  elem,            \* grid probes: the T of the Grid<T> under test
  nwrites,         \* grid probes: fill_with / set / set_bnd calls made on the grid
  transport,       \* the field of the Fluid the last advect phase was given as vel_prev
  velocity_end,    \* the velocity field as the last advect_density left it
  State,           \* flow_field: the static STATE (a reserved word here), an Option<State>
  setups,          \* flow_field: the arguments of the setup calls made, in order
  nflow,           \* flow_field: setup / tick calls made
  flowcall         \* flow_field: the last call, STATE before it and how it ended

fluidVars == <<overflow_checks, pc, dt, diff, viscosity, density, density_prev,
               velocity, velocity_prev, twin, iter, todo, phases, ticks,
               ncalls, call, panic, transport, velocity_end>>
topoVars == <<rect, probe>>
gridVars == <<probed, elem, nwrites>>
flowVars == <<State, setups, nflow, flowcall>>
vars == <<fluidVars, topoVars, gridVars, flowVars>>

---------------------------------------------------------------------------
(* Bounds of the model *)

\* Side of the simulation domain (crate::constant::N, scaled down).
N == 3
\* Relaxation sweeps per lin_solve (crate::constant::ITER, scaled down).
ITER == 2
\* add_dye / add_velocity calls per run.
MaxCalls == 2
\* tick calls per run.
MaxTicks == 2
\* Largest width and height of a probed Rect.
MaxDim == 5
\* Width in bits of the modelled usize.
UsizeBits == 16
\* Largest width and height of a probed Grid.
MaxGridDim == 3
\* fill_with / set / set_bnd calls made on a probed Grid.
MaxWrites == 3
\* flow_field::setup / flow_field::tick calls per run.
MaxFlowCalls == 4

\* The Rect of the Edged doctests (width: 10, height: 10).
DocDim == 10

---------------------------------------------------------------------------
(* Statement sequencing: x is evaluated to a value, then op is applied to it *)

Then(x, op(_)) == CHOOSE r \in {op(v) : v \in {x}} : TRUE

---------------------------------------------------------------------------
(* Rationals standing for f64 *)

Abs(n) == IF n < 0 THEN -n ELSE n

RECURSIVE GCD(_, _)
GCD(a, b) == IF b = 0 THEN a ELSE GCD(b, a % b)

Norm(n, d) ==
  LET s == IF d < 0 THEN -1 ELSE 1
      g == GCD(Abs(n), Abs(d))
  IN  <<(s * n) \div g, (s * d) \div g>>

F(n) == <<n, 1>>
Frac(n, d) == Norm(n, d)
RAdd(a, b) ==
  LET g == GCD(a[2], b[2])
  IN  Norm(a[1] * (b[2] \div g) + b[1] * (a[2] \div g), (a[2] \div g) * b[2])
RNeg(a) == <<-a[1], a[2]>>
RSub(a, b) == RAdd(a, RNeg(b))
RMul(a, b) == Norm(a[1] * b[1], a[2] * b[2])
RDiv(a, b) == Norm(a[1] * b[2], a[2] * b[1])
RLt(a, b) == a[1] * b[2] < b[1] * a[2]
RLe(a, b) == a[1] * b[2] <= b[1] * a[2]
\* f64::floor followed by `as usize` (a negative float casts to 0)
FloorUsize(a) == IF a[1] < 0 THEN 0 ELSE a[1] \div a[2]

---------------------------------------------------------------------------
(* usize arithmetic *)

UsizeModulus == 2 ^ UsizeBits

\* `a - b` on usize without overflow checks (release profile): wraps.
wrapping_sub(a, b) == (a - b + UsizeModulus) % UsizeModulus
\* usize::checked_sub(b).unwrap_or(0)
checked_sub_or_0(a, b) == IF a >= b THEN a - b ELSE 0

---------------------------------------------------------------------------
(* space/coords.rs *)

None == "None"

\* EdgeInfo::{Corner(e1, e2), Edge(e1), Neither}
EICorner(e1, e2) == [kind |-> "Corner", e1 |-> e1, e2 |-> e2]
EIEdge(e) == [kind |-> "Edge", e1 |-> e, e2 |-> None]
EINeither == [kind |-> "Neither", e1 |-> None, e2 |-> None]

\* EdgeInfo::get_edge
get_edge(info) == IF info.kind = "Edge" THEN {info.e1} ELSE {}

\* impl From<(Option<Edge>, Option<Edge>)> for EdgeInfo: the match arms in order
EdgeInfoFrom(a, b) ==
  IF a = None /\ b = None THEN EINeither
  ELSE IF (a = "Top" /\ b = "Left") \/ (a = "Left" /\ b = "Top")
    THEN EICorner("Top", "Left")
  ELSE IF (a = "Top" /\ b = "Right") \/ (a = "Right" /\ b = "Top")
    THEN EICorner("Top", "Right")
  ELSE IF (a = "Bottom" /\ b = "Right") \/ (a = "Right" /\ b = "Bottom")
    THEN EICorner("Bottom", "Right")
  ELSE IF (a = "Bottom" /\ b = "Left") \/ (a = "Left" /\ b = "Bottom")
    THEN EICorner("Bottom", "Left")
  ELSE IF a = "Top" \/ b = "Top" THEN EIEdge("Top")
  ELSE IF a = "Bottom" \/ b = "Bottom" THEN EIEdge("Bottom")
  ELSE IF a = "Left" \/ b = "Left" THEN EIEdge("Left")
  ELSE EIEdge("Right")

\* Corner::all()
Corner_all ==
  <<  <<"Top", "Left">>, <<"Top", "Right">>,
      <<"Bottom", "Left">>, <<"Bottom", "Right">>  >>

\* Rect { width, height, origin }
Rect(w, h) == [width |-> w, height |-> h, origin |-> <<0, 0>>]

\* Rust ranges as sequences: lo..hi (exclusive) and lo..=hi (inclusive)
Range(lo, hi) == [i \in 1..(IF hi > lo THEN hi - lo ELSE 0) |-> lo + i - 1]
RangeIncl(lo, hi) == Range(lo, hi + 1)

RECURSIVE Flatten(_)
Flatten(ss) == IF ss = <<>> THEN <<>> ELSE Head(ss) \o Flatten(Tail(ss))

\* Rect::contains: both upper bounds are origin + size, inclusive
contains(r, coords) ==
  LET x_bound_lower == r.origin[1]
      x_bound_upper == r.origin[1] + r.width
      x_good == coords[1] >= x_bound_lower /\ coords[1] <= x_bound_upper
      y_bound_lower == r.origin[2]
      y_bound_upper == r.origin[2] + r.height
      y_good == coords[2] >= y_bound_lower /\ coords[2] <= y_bound_upper
  IN  x_good /\ y_good

\* Rect::area
area(r) == r.height * r.width

\* Rect::coords_iter: x-major, y ascending
coords_iter(r) ==
  LET max_x == r.width - 1
      max_y == r.height - 1
      ys == RangeIncl(0, max_y)
      xs == RangeIncl(0, max_x)
  IN  Flatten([i \in DOMAIN xs |-> [j \in DOMAIN ys |-> <<xs[i], ys[j]>>]])

\* A mis-written edge_at_coords: compares against the dimension, not dimension - 1.
edge_at_coords_off_by_one(r, coords) ==
  LET x_edge == IF coords[1] = 0 THEN "Left"
                ELSE IF coords[1] = r.width THEN "Right" ELSE None
      y_edge == IF coords[2] = 0 THEN "Bottom"
                ELSE IF coords[2] = r.height THEN "Top" ELSE None
  IN  EdgeInfoFrom(x_edge, y_edge)

\* impl Edged for Rect: edge_at_coords
edge_at_coords(r, coords) ==
  LET max_x == r.width - 1
      max_y == r.height - 1
      x_edge == IF coords[1] = 0 THEN "Left"
                ELSE IF coords[1] = max_x THEN "Right" ELSE None
      y_edge == IF coords[2] = 0 THEN "Bottom"
                ELSE IF coords[2] = max_y THEN "Top" ELSE None
  IN  EdgeInfoFrom(x_edge, y_edge)

\* A mis-written coords_of_corner: the Top corners are put on row 0.
coords_of_corner_flipped(r, corner) ==
  LET max_x == r.width - 1
      max_y == r.height - 1
      x == IF corner[1] = "Right" \/ corner[2] = "Right" THEN max_x ELSE 0
      y == IF corner[1] = "Top" \/ corner[2] = "Top" THEN 0 ELSE max_y
  IN  <<x, y>>

\* impl Edged for Rect: coords_of_corner
coords_of_corner(r, corner) ==
  LET max_x == r.width - 1
      max_y == r.height - 1
      x == IF corner[1] = "Right" \/ corner[2] = "Right" THEN max_x ELSE 0
      y == IF corner[1] = "Top" \/ corner[2] = "Top" THEN max_y ELSE 0
  IN  <<x, y>>

\* A mis-written edge_coord_iter: the left and right edges keep their corners.
edge_coord_iter_with_corners(r) ==
  LET max_x == r.width - 1
      max_y == r.height - 1
      xs == RangeIncl(0, max_x)
      ys == RangeIncl(0, max_y)
      top_edge == [i \in DOMAIN xs |-> <<xs[i], max_y>>]
      bot_edge == [i \in DOMAIN xs |-> <<xs[i], 0>>]
      left_edge == [i \in DOMAIN ys |-> <<0, ys[i]>>]
      right_edge == [i \in DOMAIN ys |-> <<max_x, ys[i]>>]
      all == top_edge \o bot_edge \o left_edge \o right_edge
  IN  [i \in DOMAIN all |-> <<edge_at_coords(r, all[i]), all[i]>>]

\* Rect::edge_coord_iter: top, bottom, then left and right without their corners
edge_coord_iter(r) ==
  LET max_x == r.width - 1
      max_y == r.height - 1
      xs == RangeIncl(0, max_x)
      ys == Range(1, max_y)
      top_edge == [i \in DOMAIN xs |-> <<xs[i], max_y>>]
      bot_edge == [i \in DOMAIN xs |-> <<xs[i], 0>>]
      left_edge == [i \in DOMAIN ys |-> <<0, ys[i]>>]
      right_edge == [i \in DOMAIN ys |-> <<max_x, ys[i]>>]
      all == top_edge \o bot_edge \o left_edge \o right_edge
  IN  [i \in DOMAIN all |-> <<edge_at_coords(r, all[i]), all[i]>>]


---------------------------------------------------------------------------
(* The value types of a Grid<T>: fluid.rs Density and space/vector.rs Vector2. *)
(* An operator that is generic over T in the source takes the name of T.       *)

Vec(x, y) == [x |-> x, y |-> y]

\* #[derive(Default)]
Default(T) == IF T = "Vector2" THEN Vec(F(0), F(0)) ELSE F(0)
\* impl Add
TAdd(T, a, b) ==
  IF T = "Vector2" THEN Vec(RAdd(a.x, b.x), RAdd(a.y, b.y)) ELSE RAdd(a, b)
\* impl Mul<f64>
TMul(T, a, s) ==
  IF T = "Vector2" THEN Vec(RMul(a.x, s), RMul(a.y, s)) ELSE RMul(a, s)
\* impl Div<f64>
TDiv(T, a, s) ==
  IF T = "Vector2" THEN Vec(RDiv(a.x, s), RDiv(a.y, s)) ELSE RDiv(a, s)

\* impl ValueAtEdge for Vector2 / for Density
value_at_edge(T, edge, neighbor) ==
  IF T = "Vector2"
  THEN IF edge \in {"Left", "Right"}
       THEN Vec(RNeg(neighbor.x), neighbor.y)
       ELSE Vec(neighbor.x, RNeg(neighbor.y))
  ELSE neighbor

\* Option::unwrap_or_default and Option::unwrap on the set encoding
unwrap(opt) == CHOOSE v \in opt : TRUE
unwrap_or_default(T, opt) == IF opt = {} THEN Default(T) ELSE unwrap(opt)

---------------------------------------------------------------------------
(* space/matrix.rs: Grid<T> *)

\* An insert that keeps the value of a key that is already there
\* (entry(k).or_insert(v)).
InsertIfVacant(items, k, v) ==
  [c \in (DOMAIN items) \cup {k} |-> IF c \in DOMAIN items THEN items[c] ELSE v]

\* HashMap::insert, the value it returns: the old value of the key, if any
InsertOld(items, k) == IF k \in DOMAIN items THEN {items[k]} ELSE {}

\* HashMap::insert
Insert(items, k, v) ==
  [c \in (DOMAIN items) \cup {k} |-> IF c = k THEN v ELSE items[c]]

\* A from_dimensions that starts the grid with its origin cell set.
from_dimensions_with_origin(dims) ==
  [dimensions |-> dims, items |-> [c \in {<<0, 0>>} |-> <<0, 1>>]]

\* Grid::from_dimensions: an empty map
from_dimensions(dims) == [dimensions |-> dims, items |-> <<>>]

\* Grid::fill_with
fill_with(g, val) ==
  LET cs == coords_iter(g.dimensions)
      cset == {cs[i] : i \in DOMAIN cs}
  IN  [g EXCEPT !.items =
         [c \in (DOMAIN g.items) \cup cset |->
            IF c \in cset THEN val ELSE g.items[c]]]

\* Grid::get
get(g, coords) ==
  IF coords \in DOMAIN g.items THEN {g.items[coords]} ELSE {}

\* Grid::set (the grid afterwards; the call returns get(g, coords))
set(g, coords, new_val) == [g EXCEPT !.items = Insert(g.items, coords, new_val)]

\* Grid::set, the Option<T> the call returns: what HashMap::insert returns
set_ret(g, coords) == InsertOld(g.items, coords)

\* Grid::iter / iter_mut: the set cells; the order the HashMap yields them in is
\* not specified
iter_cells(g) == DOMAIN g.items

\* Grid::edges_iter
edges_iter(g) ==
  LET es == edge_coord_iter(g.dimensions)
      present == SelectSeq(es, LAMBDA e : get(g, e[2]) # {})
  IN  [i \in DOMAIN present |->
         <<present[i][1], present[i][2], g.items[present[i][2]]>>]

\* Grid::edges_iter_mut: the (EdgeInfo, Coord2) of every set boundary cell; the
\* &mut T of an item is the cell itself
edges_iter_mut(g) ==
  SelectSeq(edge_coord_iter(g.dimensions), LAMBDA e : e[2] \in DOMAIN g.items)

\* A get_adjacent_neighbors that leaves out the left neighbour.
get_adjacent_neighbors_no_left(g, coords) ==
  LET cand == <<  <<coords[1] + 1, coords[2]>>,
                  <<coords[1], checked_sub_or_0(coords[2], 1)>>,
                  <<coords[1], coords[2] + 1>>  >>
      present == SelectSeq(cand, LAMBDA c : get(g, c) # {})
  IN  [i \in DOMAIN present |-> <<present[i], g.items[present[i]]>>]

\* Grid::get_adjacent_neighbors: left, right, bottom, top; the unset are dropped
get_adjacent_neighbors(g, coords) ==
  LET cand == <<  <<checked_sub_or_0(coords[1], 1), coords[2]>>,
                  <<coords[1] + 1, coords[2]>>,
                  <<coords[1], checked_sub_or_0(coords[2], 1)>>,
                  <<coords[1], coords[2] + 1>>  >>
      present == SelectSeq(cand, LAMBDA c : get(g, c) # {})
  IN  [i \in DOMAIN present |-> <<present[i], g.items[present[i]]>>]

\* Grid::get_corner
get_corner(g, corner) ==
  LET coords == coords_of_corner(g.dimensions, corner)
  IN  IF get(g, coords) = {} THEN {} ELSE {<<coords, g.items[coords]>>}

\* Grid::set_corner
set_corner(g, corner, val) == set(g, coords_of_corner(g.dimensions, corner), val)

\* .map(|(_, val)| *val).fold(Default::default(), Add::add)
RECURSIVE SumVals(_, _, _)
SumVals(T, acc, ns) ==
  IF ns = <<>> THEN acc ELSE SumVals(T, TAdd(T, acc, Head(ns)[2]), Tail(ns))

\* An interpolate whose top weight is the bottom weight again.
interpolate_same_weight(T, g, pt) ==
  LET floored == <<FloorUsize(pt[1]), FloorUsize(pt[2])>>
      x_left == floored[1]
      y_bot == floored[2]
      x_right == floored[1] + 1
      y_top == floored[2] + 1
      left_weight == RSub(pt[1], F(x_left))
      right_weight == RSub(F(1), left_weight)
      bot_weight == RSub(pt[2], F(y_bot))
      top_weight == bot_weight
      term(c, w1, w2) ==
        IF get(g, c) = {} THEN Default(T)
        ELSE TMul(T, TMul(T, g.items[c], w1), w2)
      bottom_left_weight == term(<<x_left, y_bot>>, left_weight, bot_weight)
      top_left_weight == term(<<x_left, y_top>>, left_weight, top_weight)
      bottom_right_weight == term(<<x_right, y_bot>>, right_weight, bot_weight)
      top_right_weight == term(<<x_right, y_top>>, right_weight, top_weight)
  IN  TAdd(T, TAdd(T, TAdd(T, bottom_left_weight, top_left_weight),
                   bottom_right_weight), top_right_weight)

\* Grid::interpolate
interpolate(T, g, pt) ==
  LET floored == <<FloorUsize(pt[1]), FloorUsize(pt[2])>>
      x_left == floored[1]
      y_bot == floored[2]
      x_right == floored[1] + 1
      y_top == floored[2] + 1
      left_weight == RSub(pt[1], F(x_left))
      right_weight == RSub(F(1), left_weight)
      bot_weight == RSub(pt[2], F(y_bot))
      top_weight == RSub(F(1), bot_weight)
      term(c, w1, w2) ==
        IF get(g, c) = {} THEN Default(T)
        ELSE TMul(T, TMul(T, g.items[c], w1), w2)
      bottom_left_weight == term(<<x_left, y_bot>>, left_weight, bot_weight)
      top_left_weight == term(<<x_left, y_top>>, left_weight, top_weight)
      bottom_right_weight == term(<<x_right, y_bot>>, right_weight, bot_weight)
      top_right_weight == term(<<x_right, y_top>>, right_weight, top_weight)
  IN  TAdd(T, TAdd(T, TAdd(T, bottom_left_weight, top_left_weight),
                   bottom_right_weight), top_right_weight)


---------------------------------------------------------------------------
(* fluid.rs: boundary fix-up *)

NoPanic == "none"
OverflowPanic == "attempt to subtract with overflow"
SizesPanic == "floats and floats_prev were different sizes!!"
UnwrapPanic == "called Option::unwrap() on a None value"

\* `a - b` on usize: with overflow checks (debug profile) a result below zero
\* panics, without them (release profile) it wraps
usize_sub(a, b, checks) ==
  IF a >= b THEN [val |-> a - b, overflow |-> FALSE]
  ELSE [val |-> wrapping_sub(a, b), overflow |-> checks]

\* Fluid::fix_corners: the four corners in the order of Corner::all(), each
\* reading the grid as the corners before it left it
RECURSIVE FixCornersFrom(_, _, _)
FixCornersFrom(T, g, i) ==
  IF i > Len(Corner_all) THEN g
  ELSE LET corner == Corner_all[i]
           found == get_corner(g, corner)
       IN  IF found = {} THEN FixCornersFrom(T, g, i + 1)
           ELSE LET coords == unwrap(found)[1]
                    neighbors == get_adjacent_neighbors(g, coords)
                    neighbor_sum == SumVals(T, Default(T), neighbors)
                    new_val == TDiv(T, neighbor_sum, F(2))
                IN  Then(set_corner(g, corner, new_val),
                         LAMBDA g2 : FixCornersFrom(T, g2, i + 1))

fix_corners(T, g) == FixCornersFrom(T, g, 1)

\* Fluid::fix_edges, from item i of edges_iter_mut on: corners are filtered out,
\* every other boundary cell takes value_at_edge of the cell at neighbor_coords.
\* The reads go through an alias of the grid being written, so each sees the
\* writes made before it.
RECURSIVE FixEdgesFrom(_, _, _, _, _)
FixEdgesFrom(T, g, es, i, checks) ==
  IF i > Len(es) THEN [grid |-> g, panic |-> NoPanic]
  ELSE LET edge_info == es[i][1]
           coords == es[i][2]
       IN  IF get_edge(edge_info) = {} THEN FixEdgesFrom(T, g, es, i + 1, checks)
           ELSE LET edge == unwrap(get_edge(edge_info))
                    ym1 == usize_sub(coords[2], 1, checks)
                    xm1 == usize_sub(coords[1], 1, checks)
                    overflow == \/ edge = "Bottom" /\ ym1.overflow
                                \/ edge = "Right" /\ xm1.overflow
                    neighbor_coords ==
                      IF edge = "Top" THEN <<coords[1], coords[2] + 1>>
                      ELSE IF edge = "Bottom" THEN <<coords[1], ym1.val>>
                      ELSE IF edge = "Left" THEN <<coords[1] + 1, coords[2]>>
                      ELSE <<xm1.val, coords[2]>>
                    neighbor == unwrap_or_default(T, get(g, neighbor_coords))
                    new_val == value_at_edge(T, edge, neighbor)
                IN  IF overflow THEN [grid |-> g, panic |-> OverflowPanic]
                    ELSE Then(set(g, coords, new_val),
                              LAMBDA g2 : FixEdgesFrom(T, g2, es, i + 1, checks))

fix_edges(T, g, checks) == FixEdgesFrom(T, g, edges_iter_mut(g), 1, checks)

\* Fluid::set_bnd: fix_corners, then fix_edges
set_bnd(T, g, checks) == fix_edges(T, fix_corners(T, g), checks)

---------------------------------------------------------------------------
(* fluid.rs: diffuse / lin_solve *)

\* Fluid::diffuse: a = dt * diff * (N - 2) * (N - 2)
diffuse_a(dtv, diffv) == RMul(RMul(RMul(dtv, diffv), F(N - 2)), F(N - 2))
\* Fluid::diffuse: c = 1.0 + (4.0 * a)
diffuse_c(a) == RAdd(F(1), RMul(F(4), a))

\* A relaxation step that reads the neighbours from the grid being written
\* rather than from grid_prev.
LinSolveCellInPlace(T, grid, grid_prev, coords, a, c) ==
  LET neighbor_sum == SumVals(T, Default(T), get_adjacent_neighbors(grid, coords))
      neighbor_influence == TMul(T, neighbor_sum, a)
      prev_val == get(grid_prev, coords)
  IN  IF prev_val = {} THEN [grid |-> grid, panic |-> SizesPanic]
      ELSE [grid |-> set(grid, coords,
                         TDiv(T, TAdd(T, unwrap(prev_val), neighbor_influence), c)),
            panic |-> NoPanic]

\* A relaxation step that takes the centre value from the cell being written
\* (*val_mut) rather than from grid_prev.
LinSolveCellFromOwnValue(T, grid, grid_prev, coords, a, c) ==
  LET neighbor_sum ==
        SumVals(T, Default(T), get_adjacent_neighbors(grid_prev, coords))
      neighbor_influence == TMul(T, neighbor_sum, a)
      prev_val == get(grid_prev, coords)
  IN  IF prev_val = {} THEN [grid |-> grid, panic |-> SizesPanic]
      ELSE [grid |-> set(grid, coords,
                         TDiv(T, TAdd(T, grid.items[coords], neighbor_influence), c)),
            panic |-> NoPanic]

\* Fluid::lin_solve, the closure run for one item (coords, val_mut) of
\* grid.iter_mut(): next_val from grid_prev alone, then *val_mut = next_val
LinSolveCell(T, grid, grid_prev, coords, a, c) ==
  LET neighbor_sum ==
        SumVals(T, Default(T), get_adjacent_neighbors(grid_prev, coords))
      neighbor_influence == TMul(T, neighbor_sum, a)
      prev_val == get(grid_prev, coords)
  IN  IF prev_val = {} THEN [grid |-> grid, panic |-> SizesPanic]
      ELSE [grid |-> set(grid, coords,
                         TDiv(T, TAdd(T, unwrap(prev_val), neighbor_influence), c)),
            panic |-> NoPanic]

\* The set cells of a grid in the order of coords_iter
SortedCells(g) ==
  SelectSeq(coords_iter(g.dimensions), LAMBDA c : c \in DOMAIN g.items)

\* One sweep of lin_solve over the cells cs[i..], in that order
RECURSIVE SweepFrom(_, _, _, _, _, _, _)
SweepFrom(T, grid, grid_prev, cs, i, a, c) ==
  IF i > Len(cs) THEN [grid |-> grid, panic |-> NoPanic]
  ELSE Then(LinSolveCell(T, grid, grid_prev, cs[i], a, c),
            LAMBDA r : IF r.panic # NoPanic THEN r
                       ELSE SweepFrom(T, r.grid, grid_prev, cs, i + 1, a, c))

\* Fluid::lin_solve with a HashMap that yields its cells in sorted order:
\* `sweeps` sweeps, then set_bnd
RECURSIVE lin_solve_sorted(_, _, _, _, _, _, _)
lin_solve_sorted(T, grid, grid_prev, a, c, sweeps, checks) ==
  IF sweeps = 0 THEN set_bnd(T, grid, checks)
  ELSE Then(SweepFrom(T, grid, grid_prev, SortedCells(grid), 1, a, c),
            LAMBDA r : IF r.panic # NoPanic THEN r
                       ELSE lin_solve_sorted(T, r.grid, grid_prev, a, c,
                                             sweeps - 1, checks))


---------------------------------------------------------------------------
(* fluid.rs: project *)

\* Coord2::neighbors (its source is not among the files): the four cardinal
\* neighbours, a coordinate below zero saturating at 0
neighbors(coord) ==
  [left |-> <<checked_sub_or_0(coord[1], 1), coord[2]>>,
   right |-> <<coord[1] + 1, coord[2]>>,
   top |-> <<coord[1], coord[2] + 1>>,
   bottom |-> <<coord[1], checked_sub_or_0(coord[2], 1)>>]

\* Neighbors<Option<T>>::opt: Some only if all four are
all_some(g, ns) ==
  /\ get(g, ns.left) # {}
  /\ get(g, ns.right) # {}
  /\ get(g, ns.top) # {}
  /\ get(g, ns.bottom) # {}

\* project, first pass: the value written to `other` at coord
project_div(vel, coord) ==
  LET ns == neighbors(coord)
      left == unwrap_or_default("Vector2", get(vel, ns.left))
      right == unwrap_or_default("Vector2", get(vel, ns.right))
      top == unwrap_or_default("Vector2", get(vel, ns.top))
      bottom == unwrap_or_default("Vector2", get(vel, ns.bottom))
      new_val == RDiv(RNeg(RSub(RAdd(RSub(left.x, right.x), top.y), bottom.y)),
                      RMul(F(N), F(2)))
  IN  Vec(F(0), new_val)

\* project, first pass: every coordinate of other.dimensions is set
project_pass1(vel, other) ==
  LET cs == coords_iter(other.dimensions)
      cset == {cs[i] : i \in DOMAIN cs}
  IN  [other EXCEPT !.items =
         [c \in (DOMAIN other.items) \cup cset |->
            IF c \in cset THEN project_div(vel, c) ELSE other.items[c]]]

\* project, second pass, one cell: relaxes other.x in place (every read sees
\* the writes made before it)
project_relax_cell(other, coords) ==
  LET ns == neighbors(coords)
  IN  IF ~all_some(other, ns) THEN other
      ELSE LET neighbor_sum ==
                 RAdd(RAdd(RAdd(other.items[ns.left].x, other.items[ns.right].x),
                           other.items[ns.top].x), other.items[ns.bottom].x)
               here == unwrap_or_default("Vector2", get(other, coords))
               new_x == RDiv(RAdd(here.y, neighbor_sum), F(4))
           IN  set(other, coords, Vec(new_x, here.y))

\* project, second pass: one sweep over the coordinates cs[i..], in that order
RECURSIVE ProjectSweepFrom(_, _, _)
ProjectSweepFrom(other, cs, i) ==
  IF i > Len(cs) THEN other
  ELSE Then(project_relax_cell(other, cs[i]),
            LAMBDA o : ProjectSweepFrom(o, cs, i + 1))

\* project, second pass: `sweeps` sweeps over vel.dimensions.coords_iter()
RECURSIVE project_pass2(_, _, _)
project_pass2(vel, other, sweeps) ==
  IF sweeps = 0 THEN other
  ELSE Then(ProjectSweepFrom(other, coords_iter(vel.dimensions), 1),
            LAMBDA o : project_pass2(vel, o, sweeps - 1))

\* project, third pass: the gradient of other.x is subtracted from vel at every
\* coordinate whose four neighbours are set in other
project_pass3(vel, other) ==
  LET cs == coords_iter(other.dimensions)
      width == F(other.dimensions.width)
      height == F(other.dimensions.height)
      hit == {c \in {cs[i] : i \in DOMAIN cs} : all_some(other, neighbors(c))}
      new_vel(c) ==
        LET ns == neighbors(c)
            x_diff == RSub(other.items[ns.right].x, other.items[ns.left].x)
            y_diff == RSub(other.items[ns.top].x, other.items[ns.bottom].x)
            x_sub == RDiv(RMul(x_diff, width), F(2))
            y_sub == RDiv(RMul(y_diff, height), F(2))
            velocity_ == unwrap_or_default("Vector2", get(vel, c))
        IN  Vec(RSub(velocity_.x, x_sub), RSub(velocity_.y, y_sub))
  IN  [vel EXCEPT !.items =
         [c \in (DOMAIN vel.items) \cup hit |->
            IF c \in hit THEN new_vel(c) ELSE vel.items[c]]]

\* Fluid::project: the passes and the three set_bnd calls; a panic ends it
project(vel, other, checks) ==
  Then(set_bnd("Vector2", project_pass1(vel, other), checks), LAMBDA o1 :
    IF o1.panic # NoPanic
    THEN [vel |-> vel, other |-> o1.grid, panic |-> o1.panic]
    ELSE
  Then(set_bnd("Vector2", project_pass2(vel, o1.grid, ITER), checks), LAMBDA o2 :
    IF o2.panic # NoPanic
    THEN [vel |-> vel, other |-> o2.grid, panic |-> o2.panic]
    ELSE
  Then(set_bnd("Vector2", project_pass3(vel, o2.grid), checks), LAMBDA v3 :
    [vel |-> v3.grid, other |-> o2.grid, panic |-> v3.panic])))

---------------------------------------------------------------------------
(* math.rs and fluid.rs: advect *)

\* Clamp::clam
clam(self, min, max) ==
  IF RLt(self, min) THEN min ELSE IF RLt(max, self) THEN max ELSE self

\* advect: the sample position of the interior point (x, y)
trace_back(dtv, g, vel, x, y) ==
  LET time_step == RMul(dtv, F(N))
      max_x == g.dimensions.width - 2
      max_y == g.dimensions.height - 2
      distance == Vec(RMul(vel.x, time_step), RMul(vel.y, time_step))
      back == <<RSub(F(x), distance.x), RSub(F(y), distance.y)>>
  IN  <<clam(back[1], Frac(1, 2), RSub(F(max_x), Frac(1, 2))),
        clam(back[2], Frac(1, 2), RSub(F(max_y), Frac(1, 2)))>>

\* Fluid::advect from item i of the loop `for x in 1..=max_x { for y in 1..=max_y`
\* on: grid at (x, y) is set to grid_prev interpolated at the sample position;
\* vel_prev.get((x, y)).unwrap() panics on an unset cell
RECURSIVE AdvectFrom(_, _, _, _, _, _, _)
AdvectFrom(T, dtv, grid, grid_prev, vel_prev, cs, i) ==
  IF i > Len(cs) THEN [grid |-> grid, panic |-> NoPanic]
  ELSE LET c == cs[i]
       IN  IF get(vel_prev, c) = {} THEN [grid |-> grid, panic |-> UnwrapPanic]
           ELSE LET new_val ==
                      interpolate(T, grid_prev,
                                  trace_back(dtv, grid, vel_prev.items[c], c[1], c[2]))
                IN  Then(set(grid, c, new_val),
                         LAMBDA g2 : AdvectFrom(T, dtv, g2, grid_prev, vel_prev,
                                                cs, i + 1))

\* Fluid::advect
advect(T, dtv, grid, grid_prev, vel_prev) ==
  LET max_x == grid.dimensions.width - 2
      max_y == grid.dimensions.height - 2
      xs == RangeIncl(1, max_x)
      ys == RangeIncl(1, max_y)
      cs == Flatten([i \in DOMAIN xs |-> [j \in DOMAIN ys |-> <<xs[i], ys[j]>>]])
  IN  AdvectFrom(T, dtv, grid, grid_prev, vel_prev, cs, 1)

---------------------------------------------------------------------------
(* fluid.rs: the Fluid and its entry points *)

\* An add_dye that treats an unset cell as zero and sets it.
add_dye_upsert(g, pt, amount) ==
  [grid |-> set(g, pt, RAdd(unwrap_or_default("Density", get(g, pt)), amount)),
   ret |-> {"unit"}]

\* Fluid::add_dye on the density grid: Some(()) and the sum stored if the cell
\* is set, None and nothing stored if it is not
add_dye(g, pt, amount) ==
  IF get(g, pt) = {} THEN [grid |-> g, ret |-> {}]
  ELSE [grid |-> set(g, pt, RAdd(unwrap(get(g, pt)), amount)), ret |-> {"unit"}]

\* Fluid::add_velocity on the velocity grid
add_velocity(g, pt, amount) ==
  IF get(g, pt) = {} THEN [grid |-> g, ret |-> {}]
  ELSE [grid |-> set(g, pt, TAdd("Vector2", unwrap(get(g, pt)), amount)),
        ret |-> {"unit"}]

\* Arguments the calls are made with
DtVals == {Frac(-1, 8), F(0), Frac(1, 8)}
DiffVals == {F(0), F(1)}
ViscVals == {F(0), F(1)}
PtVals == {<<1, 1>>, <<0, 1>>, <<0, 0>>, <<N - 1, N - 1>>, <<N, 1>>, <<1, N + 1>>}
AmountVals == {F(1), Frac(1, 2)}
VecVals == {Vec(F(1), F(0)), Vec(Frac(-1, 2), F(1))}

Dims == Rect(N, N)
NoCall == [op |-> "none", pt |-> <<0, 0>>, amount |-> F(0), ret |-> {}, before |-> {}]
NoProbe == [op |-> "none", arg |-> None, out |-> None, back |-> None]

\* The four fields and the panic state of a Fluid
View(d, dp, v, vp, p) ==
  [density |-> d, density_prev |-> dp, velocity |-> v, velocity_prev |-> vp,
   panic |-> p]

FluidView == View(density, density_prev, velocity, velocity_prev, panic)

\* The field of the Fluid with the given name (self.<name>)
Field(name) ==
  CASE name = "density" -> density
    [] name = "density_prev" -> density_prev
    [] name = "velocity" -> velocity
    [] name = "velocity_prev" -> velocity_prev

\* The field advect_velocity and advect_density pass to advect as vel_prev
advect_velocity_vel_prev == "velocity_prev"
advect_density_vel_prev == "velocity_prev"

Unbuilt == View(from_dimensions(Dims), from_dimensions(Dims),
                from_dimensions(Dims), from_dimensions(Dims), NoPanic)

InitFluid ==
  /\ pc = "unbuilt"
  /\ dt = F(0) /\ diff = F(0) /\ viscosity = F(0)
  /\ density = Unbuilt.density /\ density_prev = Unbuilt.density_prev
  /\ velocity = Unbuilt.velocity /\ velocity_prev = Unbuilt.velocity_prev
  /\ twin = Unbuilt
  /\ iter = 0 /\ todo = {} /\ phases = <<>> /\ ticks = 0 /\ ncalls = 0
  /\ call = NoCall /\ panic = NoPanic
  /\ transport = "none" /\ velocity_end = Unbuilt.velocity

\* No Grid is under test: an empty Grid<Density> that is never written
IdleGrid == probed = from_dimensions(rect) /\ elem = "Density" /\ nwrites = 0

\* The particle module is not in use: STATE is None and no call has been made
NoFlowCall == [op |-> "none", arg |-> <<0, 0>>, before |-> {}, panic |-> NoPanic]
IdleFlow == State = {} /\ setups = <<>> /\ nflow = 0 /\ flowcall = NoFlowCall

Init ==
  /\ overflow_checks \in BOOLEAN
  /\ InitFluid
  /\ rect = Dims /\ probe = NoProbe
  /\ IdleGrid
  /\ IdleFlow

\* Fluid::new: never fails, the four grids start with no cell set
New(dtv, diffv, viscv) ==
  /\ pc = "unbuilt"
  /\ pc' = "idle"
  /\ dt' = dtv /\ diff' = diffv /\ viscosity' = viscv
  /\ density' = from_dimensions(Dims)
  /\ density_prev' = from_dimensions(Dims)
  /\ velocity' = from_dimensions(Dims)
  /\ velocity_prev' = from_dimensions(Dims)
  /\ UNCHANGED <<overflow_checks, twin, iter, todo, phases, ticks, ncalls, call,
                 panic, topoVars, gridVars,
                 flowVars, transport, velocity_end>>

\* Fluid::add_dye
AddDye(pt, amount) ==
  /\ pc = "idle" /\ ncalls < MaxCalls
  /\ LET r == add_dye(density, pt, amount)
     IN  /\ density' = r.grid
         /\ call' = [op |-> "add_dye", pt |-> pt, amount |-> amount,
                     ret |-> r.ret, before |-> get(density, pt)]
  /\ ncalls' = ncalls + 1
  /\ UNCHANGED <<overflow_checks, pc, dt, diff, viscosity, density_prev, velocity,
                 velocity_prev, twin, iter, todo, phases, ticks, panic, topoVars, gridVars,
                 flowVars, transport, velocity_end>>

\* Fluid::add_velocity
AddVelocity(pt, amount) ==
  /\ pc = "idle" /\ ncalls < MaxCalls
  /\ LET r == add_velocity(velocity, pt, amount)
     IN  /\ velocity' = r.grid
         /\ call' = [op |-> "add_velocity", pt |-> pt, amount |-> amount,
                     ret |-> r.ret, before |-> get(velocity, pt)]
  /\ ncalls' = ncalls + 1
  /\ UNCHANGED <<overflow_checks, pc, dt, diff, viscosity, density, density_prev,
                 velocity_prev, twin, iter, todo, phases, ticks, panic, topoVars, gridVars,
                 flowVars, transport, velocity_end>>

---------------------------------------------------------------------------
(* fluid.rs: Fluid::tick, one action per phase.  pc names the phase that is *)
(* about to run or running; a panic ends the program.                       *)

\* The phases of the twin: the same code, its HashMaps iterating in sorted order
TwinDiffuseVelocity(tw) ==
  Then(lin_solve_sorted("Vector2", tw.velocity, tw.velocity_prev,
                        diffuse_a(dt, diff), diffuse_c(diffuse_a(dt, diff)),
                        ITER, overflow_checks),
       LAMBDA r : [tw EXCEPT !.velocity = r.grid, !.panic = r.panic])

TwinDiffuseDensity(tw) ==
  Then(lin_solve_sorted("Density", tw.density, tw.density_prev,
                        diffuse_a(dt, diff), diffuse_c(diffuse_a(dt, diff)),
                        ITER, overflow_checks),
       LAMBDA r : [tw EXCEPT !.density = r.grid, !.panic = r.panic])

TwinProject(tw) ==
  Then(project(tw.velocity, tw.velocity_prev, overflow_checks),
       LAMBDA r : [tw EXCEPT !.velocity = r.vel, !.velocity_prev = r.other,
                             !.panic = r.panic])

TwinAdvectVelocity(tw) ==
  Then(advect("Vector2", dt, tw.velocity, tw.velocity_prev, tw.velocity_prev),
       LAMBDA r : [tw EXCEPT !.velocity = r.grid, !.panic = r.panic])

TwinAdvectDensity(tw) ==
  Then(advect("Density", dt, tw.density, tw.density_prev, tw.velocity_prev),
       LAMBDA r : [tw EXCEPT !.density = r.grid, !.panic = r.panic])

\* pc after a phase: the next phase, or the end of the program on a panic
After(p, next) == IF p # NoPanic THEN "panicked" ELSE next

\* Fluid::tick is called; the twin starts from the same four fields
Tick ==
  /\ pc = "idle" /\ ticks < MaxTicks
  /\ pc' = "diffuse_velocity"
  /\ ticks' = ticks + 1
  /\ phases' = <<>>
  /\ call' = NoCall
  /\ twin' = FluidView
  /\ UNCHANGED <<overflow_checks, dt, diff, viscosity, density, density_prev,
                 velocity, velocity_prev, iter, todo, ncalls, panic, topoVars, gridVars,
                 flowVars, transport, velocity_end>>

\* self.diffuse_velocity(): diffuse enters lin_solve on (velocity, velocity_prev)
DiffuseVelocity ==
  /\ pc = "diffuse_velocity"
  /\ pc' = "lin_solve_velocity"
  /\ phases' = Append(phases, "diffuse_velocity")
  /\ iter' = ITER
  /\ todo' = IF ITER > 0 THEN iter_cells(velocity) ELSE {}
  /\ UNCHANGED <<overflow_checks, dt, diff, viscosity, density, density_prev,
                 velocity, velocity_prev, twin, ticks, ncalls, call, panic,
                 topoVars, gridVars,
                 flowVars, transport, velocity_end>>

\* self.diffuse_density(): diffuse enters lin_solve on (density, density_prev)
DiffuseDensity ==
  /\ pc = "diffuse_density"
  /\ pc' = "lin_solve_density"
  /\ phases' = Append(phases, "diffuse_density")
  /\ iter' = ITER
  /\ todo' = IF ITER > 0 THEN iter_cells(density) ELSE {}
  /\ UNCHANGED <<overflow_checks, dt, diff, viscosity, density, density_prev,
                 velocity, velocity_prev, twin, ticks, ncalls, call, panic,
                 topoVars, gridVars,
                 flowVars, transport, velocity_end>>

InLinSolve == pc \in {"lin_solve_velocity", "lin_solve_density"}

\* lin_solve: grid.iter_mut() yields cell c, any cell it has not yielded yet in
\* this sweep, and the closure runs on it
LinSolveVisit(c) ==
  /\ InLinSolve /\ iter > 0 /\ c \in todo
  /\ LET a == diffuse_a(dt, diff)
         onVel == pc = "lin_solve_velocity"
     IN  \E r \in {IF onVel
                   THEN LinSolveCell("Vector2", velocity, velocity_prev, c, a,
                                     diffuse_c(a))
                   ELSE LinSolveCell("Density", density, density_prev, c, a,
                                     diffuse_c(a))} :
         /\ velocity' = IF onVel THEN r.grid ELSE velocity
         /\ density' = IF onVel THEN density ELSE r.grid
         /\ panic' = r.panic
         /\ pc' = After(r.panic, pc)
         /\ todo' = IF r.panic # NoPanic THEN {} ELSE todo \ {c}
         /\ iter' = IF r.panic # NoPanic THEN 0 ELSE iter
         /\ twin' = IF r.panic = NoPanic THEN twin
                    ELSE IF onVel THEN TwinDiffuseVelocity(twin)
                    ELSE TwinDiffuseDensity(twin)
  /\ UNCHANGED <<overflow_checks, dt, diff, viscosity, density_prev, velocity_prev,
                 phases, ticks, ncalls, call, topoVars, gridVars,
                 flowVars, transport, velocity_end>>

\* lin_solve: iter_mut is exhausted, one of the ITER sweeps is over
LinSolveSweepEnd ==
  /\ InLinSolve /\ iter > 0 /\ todo = {}
  /\ iter' = iter - 1
  /\ todo' = IF iter > 1
             THEN iter_cells(IF pc = "lin_solve_velocity" THEN velocity ELSE density)
             ELSE {}
  /\ UNCHANGED <<overflow_checks, pc, dt, diff, viscosity, density, density_prev,
                 velocity, velocity_prev, twin, phases, ticks, ncalls, call, panic,
                 topoVars, gridVars,
                 flowVars, transport, velocity_end>>

\* lin_solve: after the sweeps, Self::set_bnd(grid); the phase is over
LinSolveFinish ==
  /\ InLinSolve /\ iter = 0
  /\ LET onVel == pc = "lin_solve_velocity"
     IN  \E r \in {IF onVel THEN set_bnd("Vector2", velocity, overflow_checks)
                   ELSE set_bnd("Density", density, overflow_checks)} :
         /\ velocity' = IF onVel THEN r.grid ELSE velocity
         /\ density' = IF onVel THEN density ELSE r.grid
         /\ panic' = r.panic
         /\ pc' = After(r.panic, IF onVel THEN "project_velocity_1" ELSE "advect_density")
         /\ twin' = IF onVel THEN TwinDiffuseVelocity(twin) ELSE TwinDiffuseDensity(twin)
  /\ UNCHANGED <<overflow_checks, dt, diff, viscosity, density_prev, velocity_prev,
                 iter, todo, phases, ticks, ncalls, call, topoVars, gridVars,
                 flowVars, transport, velocity_end>>

\* self.project_velocity(), the second and the fourth phase
ProjectVelocity ==
  /\ pc \in {"project_velocity_1", "project_velocity_2"}
  /\ phases' = Append(phases, "project_velocity")
  /\ \E r \in {project(velocity, velocity_prev, overflow_checks)} :
         /\ velocity' = r.vel
         /\ velocity_prev' = r.other
         /\ panic' = r.panic
         /\ pc' = After(r.panic, IF pc = "project_velocity_1" THEN "advect_velocity"
                                 ELSE "diffuse_density")
  /\ twin' = TwinProject(twin)
  /\ UNCHANGED <<overflow_checks, dt, diff, viscosity, density, density_prev,
                 iter, todo, ticks, ncalls, call, topoVars, gridVars,
                 flowVars, transport, velocity_end>>

\* self.advect_velocity()
AdvectVelocity ==
  /\ pc = "advect_velocity"
  /\ phases' = Append(phases, "advect_velocity")
  /\ \E r \in {advect("Vector2", dt, velocity, velocity_prev,
                       Field(advect_velocity_vel_prev))} :
         /\ velocity' = r.grid
         /\ panic' = r.panic
         /\ pc' = After(r.panic, "project_velocity_2")
  /\ transport' = advect_velocity_vel_prev
  /\ twin' = TwinAdvectVelocity(twin)
  /\ UNCHANGED <<overflow_checks, dt, diff, viscosity, density, density_prev,
                 velocity_prev, iter, todo, ticks, ncalls, call, topoVars, gridVars,
                 flowVars, velocity_end>>

\* self.advect_density(); tick returns
AdvectDensity ==
  /\ pc = "advect_density"
  /\ phases' = Append(phases, "advect_density")
  /\ \E r \in {advect("Density", dt, density, density_prev,
                       Field(advect_density_vel_prev))} :
         /\ density' = r.grid
         /\ panic' = r.panic
         /\ pc' = After(r.panic, "idle")
  /\ transport' = advect_density_vel_prev
  /\ velocity_end' = velocity
  /\ twin' = TwinAdvectDensity(twin)
  /\ UNCHANGED <<overflow_checks, dt, diff, viscosity, density_prev, velocity,
                 velocity_prev, iter, todo, ticks, ncalls, call, topoVars, gridVars,
                 flowVars>>

Next ==
  \/ \E dtv \in DtVals, diffv \in DiffVals, viscv \in ViscVals : New(dtv, diffv, viscv)
  \/ \E pt \in PtVals, amount \in AmountVals : AddDye(pt, amount)
  \/ \E pt \in PtVals, amount \in VecVals : AddVelocity(pt, amount)
  \/ Tick
  \/ DiffuseVelocity
  \/ \E c \in todo : LinSolveVisit(c)
  \/ LinSolveSweepEnd
  \/ LinSolveFinish
  \/ ProjectVelocity
  \/ AdvectVelocity
  \/ DiffuseDensity
  \/ AdvectDensity

Spec == Init /\ [][Next]_vars

---------------------------------------------------------------------------
(* space/coords.rs and space/matrix.rs on their own: the boundary topology  *)
(* of a Rect.  The Rect is drawn at the start, every action applies one     *)
(* operation to it and records the arguments and what came back.            *)

\* Widths and heights of the Rects the operations are applied to
TopoDims == (1..MaxDim) \cup {DocDim}

InitTopo ==
  /\ overflow_checks = FALSE
  /\ InitFluid
  /\ rect \in {Rect(w, h) : w, h \in TopoDims}
  /\ probe = NoProbe
  /\ IdleGrid
  /\ IdleFlow

\* rect.edge_at_coords(coords)
EdgeAtCoords(coords) ==
  /\ probe' = [op |-> "edge_at_coords", arg |-> coords,
               out |-> edge_at_coords(rect, coords), back |-> None]
  /\ UNCHANGED <<fluidVars, rect, gridVars, flowVars>>

\* rect.coords_of_corner(corner), then rect.edge_at_coords of the result
CoordsOfCorner(corner) ==
  /\ LET coords == coords_of_corner(rect, corner)
     IN  probe' = [op |-> "coords_of_corner", arg |-> corner, out |-> coords,
                   back |-> edge_at_coords(rect, coords)]
  /\ UNCHANGED <<fluidVars, rect, gridVars, flowVars>>

\* rect.edge_coord_iter().collect()
EdgeCoordIter ==
  /\ probe' = [op |-> "edge_coord_iter", arg |-> None,
               out |-> edge_coord_iter(rect), back |-> None]
  /\ UNCHANGED <<fluidVars, rect, gridVars, flowVars>>

\* Grid::from_dimensions(rect).fill_with(0): edges_iter() and edges_iter_mut()
EdgesIter ==
  /\ LET grid == fill_with(from_dimensions(rect), F(0))
     IN  probe' = [op |-> "edges_iter", arg |-> None,
                   out |-> edges_iter(grid), back |-> edges_iter_mut(grid)]
  /\ UNCHANGED <<fluidVars, rect, gridVars, flowVars>>

\* Coordinates contains is asked about: the Rect and the two rows and columns
\* past its last
ContainsArgs(r) == (0..(r.width + 1)) \X (0..(r.height + 1))

\* rect.contains(coords)
Contains(coords) ==
  /\ probe' = [op |-> "contains", arg |-> coords, out |-> contains(rect, coords),
               back |-> None]
  /\ UNCHANGED <<fluidVars, rect, gridVars, flowVars>>

NextTopo ==
  \/ \E i \in DOMAIN coords_iter(rect) : EdgeAtCoords(coords_iter(rect)[i])
  \/ \E i \in DOMAIN Corner_all : CoordsOfCorner(Corner_all[i])
  \/ EdgeCoordIter
  \/ EdgesIter
  \/ \E coords \in ContainsArgs(rect) : Contains(coords)

SpecTopo == InitTopo /\ [][NextTopo]_vars

---------------------------------------------------------------------------
(* space/matrix.rs and the grid operations of fluid.rs on their own: a      *)
(* Grid<T> is built from its dimensions, written with fill_with, set and    *)
(* set_bnd, and read with get_adjacent_neighbors, interpolate and advect;   *)
(* every action records the arguments, the grid before and what came back.  *)

\* Widths and heights of the Grids the operations are applied to
GridDims == 2..MaxGridDim

\* Values the cells are written with
GridVals(T) ==
  IF T = "Vector2" THEN {Vec(F(1), Frac(1, 2)), Vec(Frac(1, 2), F(-1))}
  ELSE {F(1), Frac(1, 2)}

\* Coordinates set is called with; the last lies outside the dimensions
SetPts(r) == {<<1, 0>>, <<1, 1>>, <<r.width, 0>>}

\* The coordinates of r as a set
CoordSet(r) == {coords_iter(r)[i] : i \in DOMAIN coords_iter(r)}

\* Points interpolate is called with: cell centres, the point of the doctest,
\* grid points, and points on each of the four edges
InterpPts(r) ==
  {<<Frac(1, 2), Frac(1, 2)>>, <<Frac(3, 5), Frac(21, 100)>>,
   <<Frac(3, 2), Frac(1, 2)>>, <<F(1), F(1)>>,
   <<F(r.width - 2), F(r.height - 2)>>,
   <<Frac(1, 2), F(0)>>, <<F(0), Frac(1, 2)>>,
   <<Frac(1, 2), F(r.height - 1)>>, <<F(r.width - 1), Frac(1, 2)>>}

\* Coordinates get_adjacent_neighbors is called with: the cells next to the
\* origin, the innermost and the outermost cell of the far corner
NeighborPts(r) ==
  {<<0, 0>>, <<0, 1>>, <<1, 0>>, <<1, 1>>,
   <<r.width - 2, r.height - 2>>, <<r.width - 1, r.height - 1>>}

\* Timesteps advect is called with
AdvectDts == {Frac(1, 8)}

fluidVarsButPanic ==
  <<overflow_checks, pc, dt, diff, viscosity, density, density_prev, velocity,
    velocity_prev, twin, iter, todo, phases, ticks, ncalls, call,
    transport, velocity_end>>

InitGrid ==
  /\ overflow_checks \in BOOLEAN
  /\ InitFluid
  /\ rect \in {Rect(w, h) : w, h \in GridDims}
  /\ probe = NoProbe
  /\ probed = from_dimensions(rect)
  /\ elem \in {"Density", "Vector2"}
  /\ nwrites = 0
  /\ IdleFlow

\* probed = probed.fill_with(val)
FillWith(val) ==
  /\ panic = NoPanic /\ nwrites < MaxWrites
  /\ probed' = fill_with(probed, val)
  /\ probe' = [op |-> "fill_with", arg |-> val, out |-> None, back |-> probed]
  /\ nwrites' = nwrites + 1
  /\ UNCHANGED <<fluidVars, rect, elem, flowVars>>

\* probed.set(coords, new_val)
GridSet(coords, new_val) ==
  /\ panic = NoPanic /\ nwrites < MaxWrites
  /\ probed' = set(probed, coords, new_val)
  /\ probe' = [op |-> "set", arg |-> <<coords, new_val>>,
               out |-> set_ret(probed, coords), back |-> probed]
  /\ nwrites' = nwrites + 1
  /\ UNCHANGED <<fluidVars, rect, elem, flowVars>>

\* Fluid::set_bnd(&mut probed)
SetBnd ==
  /\ panic = NoPanic /\ nwrites < MaxWrites
  /\ \E r \in {set_bnd(elem, probed, overflow_checks)} :
       /\ probed' = r.grid
       /\ panic' = r.panic
  /\ probe' = [op |-> "set_bnd", arg |-> None, out |-> None, back |-> probed]
  /\ nwrites' = nwrites + 1
  /\ UNCHANGED <<fluidVarsButPanic, rect, elem, flowVars>>

\* probed.get_adjacent_neighbors(coords).collect(), and the same of every
\* coordinate it yielded
GetAdjacentNeighbors(coords) ==
  /\ panic = NoPanic
  /\ \E ns \in {get_adjacent_neighbors(probed, coords)} :
       probe' = [op |-> "get_adjacent_neighbors", arg |-> coords, out |-> ns,
                 back |-> [i \in DOMAIN ns |->
                            get_adjacent_neighbors(probed, ns[i][1])]]
  /\ UNCHANGED <<fluidVars, rect, gridVars, flowVars>>

\* probed.interpolate(pt)
Interpolate(pt) ==
  /\ panic = NoPanic
  /\ probe' = [op |-> "interpolate", arg |-> pt,
               out |-> interpolate(elem, probed, pt), back |-> None]
  /\ UNCHANGED <<fluidVars, rect, gridVars, flowVars>>

\* Fluid::advect(dt, &mut dst, &probed, &vel_prev) with dst a new grid of the
\* same dimensions and vel_prev the zero vector everywhere
Advect(dtv) ==
  /\ panic = NoPanic
  /\ \E r \in {advect(elem, dtv, from_dimensions(rect), probed,
                       fill_with(from_dimensions(rect), Default("Vector2")))} :
       probe' = [op |-> "advect", arg |-> dtv, out |-> r.grid, back |-> r.panic]
  /\ UNCHANGED <<fluidVars, rect, gridVars, flowVars>>

NextGrid ==
  \/ \E val \in GridVals(elem) : FillWith(val)
  \/ \E coords \in SetPts(rect), new_val \in GridVals(elem) : GridSet(coords, new_val)
  \/ SetBnd
  \/ \E coords \in NeighborPts(rect) : GetAdjacentNeighbors(coords)
  \/ \E pt \in InterpPts(rect) : Interpolate(pt)
  \/ \E dtv \in AdvectDts : Advect(dtv)

SpecGrid == InitGrid /\ [][NextGrid]_vars

---------------------------------------------------------------------------
(* fluid.rs: the arithmetic of the phases on its own.  The phases are pub   *)
(* associated functions of Fluid that take their grids as arguments; here   *)
(* they are applied to grids built with fill_with and set, so that the      *)
(* values they read are not all zero.  A run applies one function once and  *)
(* records the arguments and what came out.                                 *)

\* Widths and heights of the grids the phases are applied to: from the
\* smallest with an interior cell up
PhaseDims == 3..(MaxGridDim + 1)

\* The coordinates advect's loops `for x in 1..=max_x { for y in 1..=max_y` visit
AdvectPts(r) == (1..(r.width - 2)) \X (1..(r.height - 2))

\* Velocities at the point advect traces back from: none, less than a cell and
\* more than a cell per time step
TraceVels == {Vec(F(0), F(0)), Vec(F(1), Frac(-1, 2)), Vec(F(4), F(-4))}

\* Cells set after fill_with: around the innermost cell next to the origin
PhasePts == {<<0, 1>>, <<1, 1>>, <<1, 2>>}

\* Grid::from_dimensions(r).fill_with(v) with one cell set to w
PhaseGrids(T, r) ==
  {set(fill_with(from_dimensions(r), v), c, w) :
     v \in GridVals(T), w \in GridVals(T), c \in PhasePts}

\* Timestep and diffusion rate diffuse is called with
PhaseDt == Frac(1, 8)
PhaseDiff == F(1)

InitPhase ==
  /\ overflow_checks \in BOOLEAN
  /\ InitFluid
  /\ rect \in {Rect(w, h) : w, h \in PhaseDims}
  /\ probe = NoProbe
  /\ IdleGrid
  /\ IdleFlow

\* advect, the loop body at the interior point c: the sample position handed
\* to interpolate when vel_prev holds vel at c
TraceBack(dtv, vel, c) ==
  /\ probe = NoProbe
  /\ probe' = [op |-> "trace_back", arg |-> <<c, vel, dtv>>,
               out |-> trace_back(dtv, from_dimensions(rect), vel, c[1], c[2]),
               back |-> None]
  /\ UNCHANGED <<fluidVars, rect, gridVars, flowVars>>

\* project, its first loop, on the velocity field vel and a fresh `other`
ProjectDivergence(vel) ==
  /\ probe = NoProbe
  /\ probe' = [op |-> "project_pass1", arg |-> vel,
               out |-> project_pass1(vel, from_dimensions(rect)), back |-> None]
  /\ UNCHANGED <<fluidVars, rect, gridVars, flowVars>>

\* lin_solve(grid, grid_prev, a, c) for every sweep count from 1 to ITER + 1
LinSolve(T, grid, grid_prev) ==
  /\ probe = NoProbe
  /\ \E a \in {diffuse_a(PhaseDt, PhaseDiff)} :
       probe' = [op |-> "lin_solve", arg |-> <<T, grid, grid_prev>>,
                 out |-> [k \in 1..(ITER + 1) |->
                            lin_solve_sorted(T, grid, grid_prev, a, diffuse_c(a),
                                             k, overflow_checks)],
                 back |-> None]
  /\ UNCHANGED <<fluidVars, rect, gridVars, flowVars>>

NextPhase ==
  \/ \E dtv \in DtVals, vel \in TraceVels, c \in AdvectPts(rect) :
       TraceBack(dtv, vel, c)
  \/ \E vel \in PhaseGrids("Vector2", rect) : ProjectDivergence(vel)
  \/ \E T \in {"Density", "Vector2"} :
       \E grid \in PhaseGrids(T, rect), grid_prev \in PhaseGrids(T, rect) :
         LinSolve(T, grid, grid_prev)

SpecPhase == InitPhase /\ [][NextPhase]_vars

---------------------------------------------------------------------------
(* flow_field/src/lib.rs: the particle module.  Its one static, STATE, is   *)
(* an Option<State>; setup and tick are the two exported functions.  A      *)
(* panic ends the call, not the module: the host may call again.  Of the    *)
(* State the window, z_offset and the two flags are modelled; the particles *)
(* and the noise are left out, neither function's check reads them.         *)

SetupPanic == "flow_field::setup must only be called once."
TickPanic == "flow_field::setup must be called before flow_field::tick."

\* constants::TICK_CHANGE_AMOUNT
TICK_CHANGE_AMOUNT == Frac(1, 100)

\* State::new
State_new(win_w, win_h) ==
  [window |-> [width |-> win_w, height |-> win_h], z_offset |-> F(0),
   show_colors |-> FALSE, show_grid |-> FALSE]

\* State::tick
State_tick(state) ==
  [state EXCEPT !.z_offset = RAdd(state.z_offset, TICK_CHANGE_AMOUNT)]

\* A setup that stores the new State whether or not one is stored already.
setup_overwrite(state, win_w, win_h) ==
  [state |-> {State_new(win_w, win_h)}, panic |-> NoPanic]

\* flow_field::setup on STATE = state: the new State is built first, stored
\* only if STATE is None
setup(state, win_w, win_h) ==
  LET new == State_new(win_w, win_h)
  IN  IF state # {} THEN [state |-> state, panic |-> SetupPanic]
      ELSE [state |-> {new}, panic |-> NoPanic]

\* flow_field::tick on STATE = state
tick(state) ==
  IF state = {} THEN [state |-> state, panic |-> TickPanic]
  ELSE [state |-> {State_tick(unwrap(state))}, panic |-> NoPanic]

\* Window sizes setup is called with (i16)
WinVals == {-1, 0, 3}

InitFlow ==
  /\ overflow_checks = FALSE
  /\ InitFluid
  /\ rect = Dims /\ probe = NoProbe
  /\ IdleGrid
  /\ IdleFlow

\* setup(win_w, win_h) is called
Setup(win_w, win_h) ==
  /\ nflow < MaxFlowCalls
  /\ \E r \in {setup(State, win_w, win_h)} :
         /\ State' = r.state
         /\ flowcall' = [op |-> "setup", arg |-> <<win_w, win_h>>,
                         before |-> State, panic |-> r.panic]
  /\ setups' = Append(setups, <<win_w, win_h>>)
  /\ nflow' = nflow + 1
  /\ UNCHANGED <<fluidVars, topoVars, gridVars>>

\* tick(draw_particle_cb) is called
FlowTick ==
  /\ nflow < MaxFlowCalls
  /\ \E r \in {tick(State)} :
         /\ State' = r.state
         /\ flowcall' = [op |-> "tick", arg |-> <<0, 0>>, before |-> State,
                         panic |-> r.panic]
  /\ nflow' = nflow + 1
  /\ UNCHANGED <<fluidVars, topoVars, gridVars, setups>>

NextFlow ==
  \/ \E win_w, win_h \in WinVals : Setup(win_w, win_h)
  \/ FlowTick

SpecFlow == InitFlow /\ [][NextFlow]_vars

---------------------------------------------------------------------------
(* Properties of the Fluid (checked under Spec) *)

\* Whether a coordinate lies in the simulation domain
InDomain(pt) == pt[1] < Dims.width /\ pt[2] < Dims.height

\* The body of Fluid::tick, in order
SixPhases ==
  <<"diffuse_velocity", "project_velocity", "advect_velocity",
    "project_velocity", "diffuse_density", "advect_density">>

\* A tick call is over: it returned, or the program died in it
TickOver == ticks > 0 /\ pc \in {"idle", "panicked"}

\* C1: one call of Fluid::tick runs exactly the six phases diffuse(velocity),
\* project(velocity), advect(velocity), project(velocity), diffuse(density),
\* advect(density), in that order, each finished before the next starts.
C1_TickRunsSixPhases == TickOver => phases = SixPhases

\* C2: in every reachable state, add_dye on a coordinate inside the domain
\* reports success, and the dye read at the coordinate afterwards is its value
\* before the call (zero if the cell was never set) plus the amount.
C2_AddDyeInDomainSucceeds ==
  (call.op = "add_dye" /\ InDomain(call.pt)) =>
    /\ call.ret # {}
    /\ get(density, call.pt) =
         {RAdd(unwrap_or_default("Density", call.before), call.amount)}

\* C3: add_dye and add_velocity called with a coordinate outside the domain
\* return None, do not panic, and leave velocity, velocity_prev, density and
\* density_prev as they were.
C3_OutOfDomainIsNoOp ==
  [][(ncalls' # ncalls /\ ~InDomain(call'.pt)) =>
       /\ call'.ret = {}
       /\ panic' = NoPanic /\ pc' = "idle"
       /\ UNCHANGED <<velocity, velocity_prev, density, density_prev>>]_vars

\* C3, its case: after a tick has set cells of both fields, add_velocity has
\* been called with a coordinate outside the domain and has returned None.
C3_Witness ==
  /\ ticks > 0 /\ DOMAIN density.items # {} /\ DOMAIN velocity.items # {}
  /\ call.op = "add_velocity" /\ ~InDomain(call.pt) /\ call.ret = {}

\* C4: whenever lin_solve visits a coordinate that is set in the current field,
\* the coordinate is set in the _prev field too: the branch "floats and
\* floats_prev were different sizes!!" is never reached.
C4_PrevCoversField ==
  /\ pc = "lin_solve_velocity" => todo \subseteq DOMAIN velocity_prev.items
  /\ pc = "lin_solve_density" => todo \subseteq DOMAIN density_prev.items
  /\ panic # SizesPanic

\* C5: the boundary fix-up never evaluates x - 1 at x = 0 or y - 1 at y = 0
\* without saturating, on any set boundary point of a grid at least 3 wide and
\* high: no subtraction on a coordinate overflows.
C5_NoCoordinateUnderflow ==
  (Dims.width >= 3 /\ Dims.height >= 3) => panic # OverflowPanic

\* C6: Fluid::new rejects a timestep that is zero or negative: a Fluid exists
\* only with a positive timestep.
C6_NewRejectsBadTimestep == pc # "unbuilt" => RLt(F(0), dt)

\* A phase of tick has just ended (or the program has died in one), with nothing
\* called since
AtPhaseEnd ==
  \/ pc \in {"project_velocity_1", "advect_velocity", "project_velocity_2",
             "diffuse_density", "advect_density", "panicked"}
  \/ pc = "idle" /\ ticks > 0 /\ call = NoCall

\* C7: tick is deterministic.  Of two Fluids with equal fields and parameters,
\* one whose lin_solve visits the cells in any order at all and one (twin) that
\* visits them in sorted order, every phase of a tick leaves equal fields.
C7_TickDeterministic == AtPhaseEnd => twin = FluidView

\* C7, its case: the second tick's lin_solve has swept a velocity field of
\* several cells with a non-zero coefficient a.
C7_Witness ==
  /\ pc = "project_velocity_1" /\ ticks = 2
  /\ Cardinality(DOMAIN velocity.items) > 1
  /\ diffuse_a(dt, diff) # F(0)
  /\ twin = FluidView

---------------------------------------------------------------------------
(* Properties of the boundary topology (checked under SpecTopo) *)

BigEnough(r) == r.width >= 3 /\ r.height >= 3

\* The coordinates of r with x in {0, W-1} or y in {0, H-1}
Boundary(r) ==
  {c \in (0..(r.width - 1)) \X (0..(r.height - 1)) :
     c[1] \in {0, r.width - 1} \/ c[2] \in {0, r.height - 1}}

\* items, a sequence of tuples (EdgeInfo, Coord2, ...), is the boundary of r:
\* every boundary coordinate once and nothing else, 4 of them tagged Corner,
\* the other 2(W-2) + 2(H-2) tagged Edge
IsBoundaryOf(r, items) ==
  LET idx == DOMAIN items
      tagged(k) == {i \in idx : items[i][1].kind = k}
  IN  /\ {items[i][2] : i \in idx} = Boundary(r)
      /\ \A i, j \in idx : items[i][2] = items[j][2] => i = j
      /\ Len(items) = 2 * r.width + 2 * r.height - 4
      /\ Cardinality(tagged("Corner")) = 4
      /\ Cardinality(tagged("Edge")) = 2 * (r.width - 2) + 2 * (r.height - 2)
      /\ tagged("Neither") = {}
      /\ \A i \in idx : items[i][1] = edge_at_coords(r, items[i][2])

\* C8: for W, H >= 3, edge_coord_iter (and edges_iter / edges_iter_mut on a
\* grid with every cell set) yields every coordinate with x in {0, W-1} or y in
\* {0, H-1} exactly once and no other: 2W + 2H - 4 items, 4 tagged Corner,
\* 2(W-2) + 2(H-2) tagged Edge, none Neither.
C8_BoundaryEnumeration ==
  BigEnough(rect) =>
    /\ probe.op = "edge_coord_iter" => IsBoundaryOf(rect, probe.out)
    /\ probe.op = "edges_iter" =>
         /\ IsBoundaryOf(rect, probe.out)
         /\ IsBoundaryOf(rect, probe.back)

\* C8, its case: the boundary of a 4 x 5 Rect has been enumerated, 14 items.
C8_Witness ==
  /\ rect.width = 4 /\ rect.height = 5
  /\ probe.op = "edge_coord_iter" /\ Len(probe.out) = 14

\* The Corner / Edge / Neither a coordinate of r should be classified as
Classify(r, c) ==
  LET onX == c[1] \in {0, r.width - 1}
      onY == c[2] \in {0, r.height - 1}
      xe == IF c[1] = 0 THEN "Left" ELSE "Right"
      ye == IF c[2] = 0 THEN "Bottom" ELSE "Top"
  IN  IF onX /\ onY THEN [kind |-> "Corner", edges |-> {xe, ye}]
      ELSE IF onX THEN [kind |-> "Edge", edges |-> {xe}]
      ELSE IF onY THEN [kind |-> "Edge", edges |-> {ye}]
      ELSE [kind |-> "Neither", edges |-> {}]

\* C9: for width, height >= 3 and (x, y) in the Rect, edge_at_coords returns a
\* Corner exactly when x is 0 or width-1 and y is 0 or height-1, an Edge exactly
\* when one of the two holds, Neither otherwise; x = 0 gives Left, x = width-1
\* Right, y = 0 Bottom, y = height-1 Top; (0, 1) in a 10 x 10 Rect is Edge(Left).
C9_EdgeAtCoordsClassifies ==
  (probe.op = "edge_at_coords" /\ BigEnough(rect)) =>
    /\ probe.out.kind = Classify(rect, probe.arg).kind
    /\ {probe.out.e1, probe.out.e2} \ {None} = Classify(rect, probe.arg).edges
    /\ (rect = Rect(DocDim, DocDim) /\ probe.arg = <<0, 1>>) =>
         probe.out = EIEdge("Left")

\* C9, its case: (0, 1) of the 10 x 10 Rect has been classified.
C9_Witness ==
  /\ rect = Rect(DocDim, DocDim)
  /\ probe.op = "edge_at_coords" /\ probe.arg = <<0, 1>>
  /\ probe.out.kind = "Edge"

\* C10: for width, height >= 3 and each corner of Corner::all(),
\* coords_of_corner has x = 0 if the corner contains Left and width-1 if not,
\* y = height-1 if it contains Top and 0 if not; edge_at_coords of that
\* coordinate is the Corner of the same two edges; the four coordinates are
\* pairwise distinct.
C10_CornerRoundTrip ==
  BigEnough(rect) =>
    /\ probe.op = "coords_of_corner" =>
         LET edges == {probe.arg[1], probe.arg[2]}
         IN  /\ probe.out[1] = IF "Left" \in edges THEN 0 ELSE rect.width - 1
             /\ probe.out[2] = IF "Top" \in edges THEN rect.height - 1 ELSE 0
             /\ probe.back.kind = "Corner"
             /\ {probe.back.e1, probe.back.e2} = edges
    /\ \A i, j \in DOMAIN Corner_all :
         coords_of_corner(rect, Corner_all[i]) = coords_of_corner(rect, Corner_all[j])
           => i = j

\* C10, its case: the Top Right corner of a 3 x 5 Rect has been located at (2, 4)
\* and classified back.
C10_Witness ==
  /\ rect.width = 3 /\ rect.height = 5
  /\ probe.op = "coords_of_corner" /\ probe.arg = <<"Top", "Right">>
  /\ probe.out = <<2, 4>> /\ probe.back = EICorner("Top", "Right")

\* C20: Rect::contains(c) is true exactly for the coordinates of the Rect,
\* origin.x <= c.x <= origin.x + width - 1 and origin.y <= c.y <= origin.y +
\* height - 1: the coordinates contains is true for are those coords_iter
\* yields, and there are area() = width * height of them.
C20_ContainsIsTheRect ==
  probe.op = "contains" =>
    /\ probe.out <=>
         /\ rect.origin[1] <= probe.arg[1]
         /\ probe.arg[1] <= rect.origin[1] + rect.width - 1
         /\ rect.origin[2] <= probe.arg[2]
         /\ probe.arg[2] <= rect.origin[2] + rect.height - 1
    /\ probe.out <=> probe.arg \in CoordSet(rect)
    /\ Len(coords_iter(rect)) = area(rect)
    /\ Cardinality({c \in ContainsArgs(rect) : contains(rect, c)}) = area(rect)

---------------------------------------------------------------------------
(* Properties of the Grid (checked under SpecGrid) *)

\* Every coordinate of the dimensions is set, and no other
FullyPopulated(g) == DOMAIN g.items = CoordSet(g.dimensions)

\* Strictly inside r: on no edge
Interior(r, c) ==
  /\ 1 <= c[1] /\ c[1] <= r.width - 2
  /\ 1 <= c[2] /\ c[2] <= r.height - 2

\* C11: set(c, v) returns what get(c) returned just before the call (None when
\* c was never set, as on a grid fresh from from_dimensions); afterwards get(c)
\* returns v and get of every other coordinate returns what it returned before.
C11_SetThenGet ==
  probe.op = "set" =>
    LET c == probe.arg[1]
        v == probe.arg[2]
        before == probe.back
        others == ((DOMAIN before.items) \cup (DOMAIN probed.items)
                     \cup CoordSet(rect) \cup SetPts(rect)) \ {c}
    IN  /\ probe.out = get(before, c)
        /\ before = from_dimensions(rect) => probe.out = {}
        /\ get(probed, c) = {v}
        /\ \A d \in others : get(probed, d) = get(before, d)

\* C11, its case: a cell that held another value has been set again, in a grid
\* with other cells set; the call returned the old value.
C11_Witness ==
  /\ probe.op = "set"
  /\ probe.out # {} /\ probe.out # {probe.arg[2]}
  /\ get(probed, probe.arg[1]) = {probe.arg[2]}
  /\ Cardinality(DOMAIN probed.items) > 1

\* |a.x - b.x| + |a.y - b.y|
Manhattan(a, b) == Abs(a[1] - b[1]) + Abs(a[2] - b[2])

\* C12: for every grid and every coordinate c inside the domain (c.x = 0 and
\* c.y = 0 included), get_adjacent_neighbors(c) yields at most 4 items, each a
\* set cell at Manhattan distance exactly 1 from c, each at most once; a missing
\* neighbour is left out and c itself is never yielded.
C12_NeighborsAreAdjacent ==
  (probe.op = "get_adjacent_neighbors" /\ probe.arg \in CoordSet(rect)) =>
    LET c == probe.arg
        ns == probe.out
    IN  /\ Len(ns) <= 4
        /\ \A i \in DOMAIN ns :
             /\ get(probed, ns[i][1]) = {ns[i][2]}
             /\ Manhattan(ns[i][1], c) = 1
             /\ ns[i][1] # c
        /\ \A i, j \in DOMAIN ns : ns[i][1] = ns[j][1] => i = j

\* C13: neighbour symmetry.  For every interior coordinate c that is set and
\* every coordinate n that get_adjacent_neighbors(c) yields,
\* get_adjacent_neighbors(n) yields c.
C13_NeighborSymmetry ==
  (/\ probe.op = "get_adjacent_neighbors"
   /\ Interior(rect, probe.arg)
   /\ get(probed, probe.arg) # {}) =>
    \A i \in DOMAIN probe.out :
      \E j \in DOMAIN probe.back[i] : probe.back[i][j][1] = probe.arg

\* C13, its case: the interior cell (1, 1) of a 3 x 3 grid is set and has four
\* set neighbours, one of them on the left edge; each of them yields (1, 1).
C13_Witness ==
  /\ rect = Rect(3, 3)
  /\ probe.op = "get_adjacent_neighbors" /\ probe.arg = <<1, 1>>
  /\ get(probed, <<1, 1>>) # {}
  /\ Len(probe.out) = 4
  /\ \E i \in DOMAIN probe.out : probe.out[i][1] = <<0, 1>>
  /\ \A i \in DOMAIN probe.out :
       \E j \in DOMAIN probe.back[i] : probe.back[i][j][1] = <<1, 1>>

\* The coordinates of r that lie on exactly one edge
EdgePoints(r) == {c \in CoordSet(r) : Classify(r, c).kind = "Edge"}

\* The one step inward from a boundary coordinate of r along x and along y
InwardX(r, c) == IF c[1] = 0 THEN 1 ELSE r.width - 2
InwardY(r, c) == IF c[2] = 0 THEN 1 ELSE r.height - 2

\* The single inward neighbour of a non-corner edge point: the adjacent
\* interior cell
InwardNeighbor(r, c) ==
  IF c[1] \in {0, r.width - 1} THEN <<InwardX(r, c), c[2]>>
  ELSE <<c[1], InwardY(r, c)>>

\* A vector with its component normal to the edge negated, the other kept
Mirrored(r, c, n) ==
  IF c[1] \in {0, r.width - 1} THEN Vec(RNeg(n.x), n.y) ELSE Vec(n.x, RNeg(n.y))

\* set_bnd has returned from a grid that had every cell of its dimensions
\* set, at least 3 wide and high
AfterSetBndOnFull ==
  /\ probe.op = "set_bnd" /\ panic = NoPanic
  /\ BigEnough(rect) /\ FullyPopulated(probe.back)

\* C14: mirror boundary law.  After set_bnd on a fully populated Vector2 grid
\* (width, height >= 3), every non-corner point of each of the four edges holds
\* the value of its single inward neighbour with the component normal to the
\* edge negated and the tangential component unchanged.
C14_MirrorBoundaryLaw ==
  (AfterSetBndOnFull /\ elem = "Vector2") =>
    \A c \in EdgePoints(rect) :
      probed.items[c] = Mirrored(rect, c, probed.items[InwardNeighbor(rect, c)])

\* C15: corner averaging law.  After set_bnd on a fully populated grid (width,
\* height >= 3), each of the four corners holds the arithmetic mean of the
\* values its row neighbour and its column neighbour hold after that call.
C15_CornerAveragingLaw ==
  AfterSetBndOnFull =>
    \A c \in {0, rect.width - 1} \X {0, rect.height - 1} :
      probed.items[c] =
        TDiv(elem, TAdd(elem, probed.items[<<InwardX(rect, c), c[2]>>],
                        probed.items[<<c[1], InwardY(rect, c)>>]), F(2))

\* C27: within one set_bnd call the edge pass comes first and the corner pass
\* second.  After set_bnd on a fully populated grid (width, height >= 3) the
\* grid is the one the corner pass makes of what the edge pass made of the
\* grid before the call.
C27_EdgesBeforeCorners ==
  AfterSetBndOnFull =>
    probed = fix_corners(elem, fix_edges(elem, probe.back, overflow_checks).grid)

\* A point whose two coordinates are whole numbers
IsIntegerPt(pt) == pt[1][2] = 1 /\ pt[2][2] = 1

\* C16: interpolation identity.  On a fully populated grid, for every integer
\* coordinate (x, y) strictly inside the domain, interpolate((x, y)) returns
\* exactly the value stored at (x, y).
C16_InterpolationIdentity ==
  (/\ probe.op = "interpolate"
   /\ FullyPopulated(probed)
   /\ IsIntegerPt(probe.arg)
   /\ Interior(rect, <<probe.arg[1][1], probe.arg[2][1]>>)) =>
    probe.out = probed.items[<<probe.arg[1][1], probe.arg[2][1]>>]

\* The four cells surrounding a sample point with coordinates >= 0: bottom
\* left, top left, bottom right, top right
Surrounding(pt) ==
  LET x == FloorUsize(pt[1])
      y == FloorUsize(pt[2])
  IN  <<  <<x, y>>, <<x, y + 1>>, <<x + 1, y>>, <<x + 1, y + 1>>  >>

\* The four bilinear coefficients of a sample point, from the fractional parts
\* a and b of its coordinates: a b, a (1 - b), (1 - a) b, (1 - a) (1 - b)
Coefficients(pt) ==
  LET a == RSub(pt[1], F(FloorUsize(pt[1])))
      b == RSub(pt[2], F(FloorUsize(pt[2])))
  IN  <<RMul(a, b), RMul(a, RSub(F(1), b)),
        RMul(RSub(F(1), a), b), RMul(RSub(F(1), a), RSub(F(1), b))>>

\* v1 w1 + v2 w2 + v3 w3 + v4 w4
Weighted(T, vs, ws) ==
  TAdd(T, TAdd(T, TAdd(T, TMul(T, vs[1], ws[1]), TMul(T, vs[2], ws[2])),
               TMul(T, vs[3], ws[3])), TMul(T, vs[4], ws[4]))

OnEdgeOf(r, pt) ==
  /\ RLe(F(0), pt[1]) /\ RLe(pt[1], F(r.width - 1))
  /\ RLe(F(0), pt[2]) /\ RLe(pt[2], F(r.height - 1))
  /\ \/ pt[1] = F(0) \/ pt[1] = F(r.width - 1)
     \/ pt[2] = F(0) \/ pt[2] = F(r.height - 1)

\* C18: on a fully populated grid, interpolate given a point on an edge of the
\* grid (x = 0, x = width-1, y = 0 or y = height-1) returns the default (zero)
\* value of T, for each of the four edges.
C18_EdgePointGivesDefault ==
  (/\ probe.op = "interpolate"
   /\ FullyPopulated(probed)
   /\ OnEdgeOf(rect, probe.arg)) =>
    probe.out = Default(elem)

\* C19: identity under zero velocity.  With the zero vector in every cell of
\* the velocity field and src fully populated, one advect pass writes to every
\* interior point of dst the value src holds at that point.
C19_AdvectZeroVelocityIsIdentity ==
  (/\ probe.op = "advect"
   /\ FullyPopulated(probed)
   /\ BigEnough(rect)) =>
    /\ probe.back = NoPanic
    /\ \A c \in {d \in CoordSet(rect) : Interior(rect, d)} :
         get(probe.out, c) = {probed.items[c]}


---------------------------------------------------------------------------
(* Properties of the Fluid over ticks (Spec) *)

\* diffuse(velocity) is about to run as step 1 of a tick that is not the first
AtDiffuseOfLaterTick == pc = "diffuse_velocity" /\ ticks >= 2

\* C25: whenever diffuse(velocity) runs as step 1 of a tick that is not the
\* first, velocity_prev holds, cell for cell, the velocity field as it stood
\* at the end of the previous tick.
C25_PrevIsLastTicksVelocity ==
  AtDiffuseOfLaterTick => velocity_prev.items = velocity_end.items

\* C26: once advect(density) has run as step 6 of a tick, the field it traced
\* back along is the velocity field (as the second projection left it) and no
\* other field of the Fluid.
C26_DensityFollowsVelocity ==
  (Len(phases) = 6 /\ phases[6] = "advect_density") => transport = "velocity"

---------------------------------------------------------------------------
(* Properties of the particle module (SpecFlow) *)

\* The window of the State the first setup call was made for
FirstWindow == [width |-> setups[1][1], height |-> setups[1][2]]

---------------------------------------------------------------------------
(* Properties of the phases on their own (SpecPhase) *)

\* The position the interior point c is traced back to before it is clamped
Unclamped(c, vel, dtv) ==
  <<RSub(F(c[1]), RMul(vel.x, RMul(dtv, F(N)))),
    RSub(F(c[2]), RMul(vel.y, RMul(dtv, F(N))))>>

\* v brought into the closed interval [lo, hi]
Within(v, lo, hi) == IF RLt(v, lo) THEN lo ELSE IF RLt(hi, v) THEN hi ELSE v

\* C22: in advect, for every interior point and every velocity, the sample
\* position is the traced-back position clamped per axis to
\* [0.5, width - 1.5] and [0.5, height - 1.5].
C22_ClampInterval ==
  probe.op = "trace_back" =>
    LET raw == Unclamped(probe.arg[1], probe.arg[2], probe.arg[3])
    IN  /\ probe.out[1] = Within(raw[1], Frac(1, 2), RSub(F(rect.width), Frac(3, 2)))
        /\ probe.out[2] = Within(raw[2], Frac(1, 2), RSub(F(rect.height), Frac(3, 2)))

\* C23: for every interior point and every velocity, the four cells
\* interpolate reads around the clamped sample position (floor and floor + 1
\* on each axis) are strictly inside the domain, none on an edge or a corner.
C23_NoEdgeCellRead ==
  probe.op = "trace_back" =>
    \A i \in 1..4 : Interior(rect, Surrounding(probe.out)[i])


\* The divergence at p of the velocity field vel: minus the central
\* differences of x along x and of y along y, over 2 N
Divergence(vel, p) ==
  LET right == vel.items[<<p[1] + 1, p[2]>>]
      left == vel.items[<<p[1] - 1, p[2]>>]
      top == vel.items[<<p[1], p[2] + 1>>]
      bottom == vel.items[<<p[1], p[2] - 1>>]
  IN  RDiv(RNeg(RAdd(RSub(right.x, left.x), RSub(top.y, bottom.y))), F(2 * N))

\* C24: after project's first loop on a fully populated velocity field, the
\* auxiliary field holds at every interior point p zero in its x slot and
\* -(vel(right).x - vel(left).x + vel(top).y - vel(bottom).y) / (2 N) in its
\* y slot.
C24_DivergenceFormula ==
  probe.op = "project_pass1" =>
    \A p \in CoordSet(rect) :
      Interior(rect, p) =>
        /\ p \in DOMAIN probe.out.items
        /\ probe.out.items[p] = Vec(F(0), Divergence(probe.arg, p))


\* C28: lin_solve produces the same field (and the same panic, if any) for
\* every sweep count from 1 up: a second or later sweep rewrites every set
\* cell with the value the first sweep wrote.
C28_SweepCountIrrelevant ==
  probe.op = "lin_solve" =>
    \A k \in DOMAIN probe.out : probe.out[k] = probe.out[1]

\* lin_solve has run 1 to ITER + 1 sweeps (ITER >= 2) without a panic on two
\* grids that differ, the right-hand side not uniform, and has changed a cell
C28_Witness ==
  /\ probe.op = "lin_solve"
  /\ ITER >= 2 /\ DOMAIN probe.out = 1..(ITER + 1)
  /\ probe.out[ITER].panic = NoPanic
  /\ probe.arg[2] # probe.arg[3]
  /\ \E c, d \in DOMAIN probe.arg[3].items : probe.arg[3].items[c] # probe.arg[3].items[d]
  /\ \E c \in DOMAIN probe.arg[2].items :
       /\ Interior(rect, c)
       /\ probe.out[ITER].grid.items[c] # probe.arg[2].items[c]
       /\ probe.out[ITER].grid.items[c] # Default(probe.arg[1])

=============================================================================
